---- MODULE Spec2Model ----
(***************************************************************************)
(* Model of ExampleDriver::new (src/src/lib.rs): the bring-up sequence of  *)
(* the example embedded driver.  Every capability call (pin, delay, bus)   *)
(* is one action; the capabilities are the environment and answer every   *)
(* call nondeterministically with success or a native error.               *)
(***************************************************************************)
EXTENDS Integers, Sequences, FiniteSets, TLC

VARIABLES
    pc,          \* position inside ExampleDriver::new
    config,      \* the Config value passed by the caller (poll_ms)
    s_config,    \* s.config.poll_ms of the instance under construction
    timeout,     \* local `timeout` of the busy-wait loop (u32)
    result,      \* value returned by new: None while running
    resetLevel,  \* level last driven successfully on the reset pin
    csLevel,     \* level last driven successfully on the chip-select pin
    trace,       \* history: capability calls in order, with their outcome
    count,       \* history: number of invocations per call site
    okd,         \* history: call sites whose call returned Ok
    sawHigh,     \* history: a busy read returned Ok(high)
    lowAt,       \* history: values of `timeout` at which busy read low
    failed       \* history: the first failing call and its native error

vars == <<pc, config, s_config, timeout, result, resetLevel, csLevel,
          trace, count, okd, sawHigh, lowAt, failed>>

----------------------------------------------------------------------------
(* Program constants *)

\* A u32 is a pair <<hi, lo>> of 16-bit limbs (the checker's integers are
\* narrower than 2^32); arithmetic on the pairs is arithmetic modulo 2^32.
Limb == 65536

U32(n) == <<n \div Limb, n % Limb>>

U32_MAX == <<Limb - 1, Limb - 1>>

\* the value of a u32 below 2^31 as an integer
Val(v) == v[1] * Limb + v[2]

RESET_TIMEOUT_MS == U32(100)

RESET_PULSE_MS == U32(10)

DEFAULT_POLL_MS == U32(100)

I2C_ADDR == 1

I2C_PAYLOAD == <<1, 2>>

SPI_PAYLOAD == <<2, 3>>

(* Bounds of the exploration *)

\* history counters saturate here (only a zero poll interval reaches it)
MaxCount == 7

\* the call history stops growing here (only a zero poll interval reaches it)
MaxTrace == 20

\* poll intervals explored: zero, divisors and non-divisors of the budget,
\* the default, just above the budget, and the largest u32
PollValues == {U32(0), U32(25), U32(30), U32(50), DEFAULT_POLL_MS, U32(101),
               U32_MAX}

\* native error payloads of the capabilities
NativeErrors == {"e1", "e2"}

Sites == {"reset_low", "pulse_delay", "reset_high", "busy_read", "poll_delay",
          "i2c_write", "cs_low", "spi_write", "cs_high"}

BusSites == {"i2c_write", "cs_low", "spi_write", "cs_high"}

----------------------------------------------------------------------------
(* Values *)

NoResult == [tag |-> "None", e |-> "-"]

OkInstance == [tag |-> "Ok", e |-> "-"]

ResetTimeout == [tag |-> "ResetTimeout", e |-> "-"]

PinErr(e) == [tag |-> "Pin", e |-> e]

\* fault: the I2C error is wrapped in the SPI variant
I2cErr_AsSpi(e) == [tag |-> "Spi", e |-> e]

I2cErr(e) == [tag |-> "I2c", e |-> e]

SpiErr(e) == [tag |-> "Spi", e |-> e]

NoFailure == [op |-> "none", e |-> "-"]

\* outcome of a fallible capability call: Ok or a native error
Outcomes == {"ok"} \cup NativeErrors

\* fault: the polarity of the busy pin is inverted
IsLow_Inverted(level) == level = "high"

\* InputPin::is_low on a pin at the given level
IsLow(level) == level = "low"

\* the carry out of the u32 addition a + b (1 when it exceeds u32::MAX)
CarryU32(a, b) == (a[1] + b[1] + ((a[2] + b[2]) \div Limb)) \div Limb

\* fault: `timeout = poll_ms` instead of `timeout += poll_ms`
AddU32_NoAccumulate(a, b) == b

\* u32 addition of `timeout += s.config.poll_ms`, wrapping
AddU32(a, b) ==
    <<(a[1] + b[1] + ((a[2] + b[2]) \div Limb)) % Limb, (a[2] + b[2]) % Limb>>

\* a > b on u32
GtU32(a, b) == a[1] > b[1] \/ (a[1] = b[1] /\ a[2] > b[2])

\* fault: `>=` instead of `>` in the timeout test
TimedOut_GreaterEq(t) == GtU32(t, RESET_TIMEOUT_MS) \/ t = RESET_TIMEOUT_MS

\* fault: the budget is compared in the wrong unit (1000 instead of 100)
TimedOut_WrongBudget(t) == GtU32(t, U32(1000))

\* `if timeout > RESET_TIMEOUT_MS`
TimedOut(t) == GtU32(t, RESET_TIMEOUT_MS)

----------------------------------------------------------------------------
(* History bookkeeping *)

Call(op, arg, res) == [op |-> op, arg |-> arg, res |-> res]

Log(tr, c) == IF Len(tr) < MaxTrace THEN Append(tr, c) ELSE tr

Inc(cnt, site) ==
    [cnt EXCEPT ![site] = IF @ < MaxCount THEN @ + 1 ELSE @]

\* a call at `site` returned native error e: `?` returns Err(err) from new
Fail(site, e, err) ==
    /\ failed' = [op |-> site, e |-> e]
    /\ result' = err
    /\ pc' = "done"

----------------------------------------------------------------------------
Init ==
    /\ pc = "reset_low"
    /\ config \in PollValues
    /\ s_config = config
    /\ timeout = U32(0)
    /\ result = NoResult
    /\ resetLevel = "unknown"
    /\ csLevel = "unknown"
    /\ trace = <<>>
    /\ count = [s \in Sites |-> 0]
    /\ okd = {}
    /\ sawHigh = FALSE
    /\ lowAt = {}
    /\ failed = NoFailure

\* fault: the result of reset.set_low() is dropped (`let _ = ...;`)
ResetLow_IgnoreError ==
    /\ pc = "reset_low"
    /\ \E r \in Outcomes :
        /\ trace' = Log(trace, Call("reset.set_low", <<>>, r))
        /\ count' = Inc(count, "reset_low")
        /\ pc' = "pulse_delay"
        /\ IF r = "ok"
           THEN /\ resetLevel' = "low"
                /\ okd' = okd \cup {"reset_low"}
                /\ UNCHANGED failed
           ELSE /\ failed' = [op |-> "reset_low", e |-> r]
                /\ UNCHANGED <<resetLevel, okd>>
    /\ UNCHANGED <<config, s_config, timeout, result, csLevel, sawHigh, lowAt>>

\* s.reset.set_low().map_err(|e| Error::Pin(e))?;
ResetLow ==
    /\ pc = "reset_low"
    /\ \E r \in Outcomes :
        /\ trace' = Log(trace, Call("reset.set_low", <<>>, r))
        /\ count' = Inc(count, "reset_low")
        /\ IF r = "ok"
           THEN /\ resetLevel' = "low"
                /\ okd' = okd \cup {"reset_low"}
                /\ pc' = "pulse_delay"
                /\ UNCHANGED <<result, failed>>
           ELSE /\ Fail("reset_low", r, PinErr(r))
                /\ UNCHANGED <<resetLevel, okd>>
    /\ UNCHANGED <<config, s_config, timeout, csLevel, sawHigh, lowAt>>

\* fault: the reset pulse is held for the poll interval instead of 10 ms
PulseDelay_PollMs ==
    /\ pc = "pulse_delay"
    /\ trace' = Log(trace, Call("delay.delay_ms", s_config, "ok"))
    /\ count' = Inc(count, "pulse_delay")
    /\ okd' = okd \cup {"pulse_delay"}
    /\ pc' = "reset_high"
    /\ UNCHANGED <<config, s_config, timeout, result, resetLevel, csLevel,
                   sawHigh, lowAt, failed>>

\* s.delay.delay_ms(10);
PulseDelay ==
    /\ pc = "pulse_delay"
    /\ trace' = Log(trace, Call("delay.delay_ms", RESET_PULSE_MS, "ok"))
    /\ count' = Inc(count, "pulse_delay")
    /\ okd' = okd \cup {"pulse_delay"}
    /\ pc' = "reset_high"
    /\ UNCHANGED <<config, s_config, timeout, result, resetLevel, csLevel,
                   sawHigh, lowAt, failed>>

\* fault: `let mut timeout = RESET_TIMEOUT_MS;` (the budget taken for the
\* start value of the accumulator)
ResetHigh_TimeoutStartsAtBudget ==
    /\ pc = "reset_high"
    /\ \E r \in Outcomes :
        /\ trace' = Log(trace, Call("reset.set_high", <<>>, r))
        /\ count' = Inc(count, "reset_high")
        /\ IF r = "ok"
           THEN /\ resetLevel' = "high"
                /\ okd' = okd \cup {"reset_high"}
                /\ timeout' = RESET_TIMEOUT_MS
                /\ pc' = "busy_read"
                /\ UNCHANGED <<result, failed>>
           ELSE /\ Fail("reset_high", r, PinErr(r))
                /\ UNCHANGED <<resetLevel, okd, timeout>>
    /\ UNCHANGED <<config, s_config, csLevel, sawHigh, lowAt>>

\* fault: the result of reset.set_high() is dropped (`let _ = ...;`)
ResetHigh_IgnoreError ==
    /\ pc = "reset_high"
    /\ \E r \in Outcomes :
        /\ trace' = Log(trace, Call("reset.set_high", <<>>, r))
        /\ count' = Inc(count, "reset_high")
        /\ timeout' = U32(0)
        /\ pc' = "busy_read"
        /\ IF r = "ok"
           THEN /\ resetLevel' = "high"
                /\ okd' = okd \cup {"reset_high"}
                /\ UNCHANGED failed
           ELSE /\ failed' = [op |-> "reset_high", e |-> r]
                /\ UNCHANGED <<resetLevel, okd>>
    /\ UNCHANGED <<config, s_config, result, csLevel, sawHigh, lowAt>>

\* s.reset.set_high().map_err(|e| Error::Pin(e))?;  let mut timeout = 0;
ResetHigh ==
    /\ pc = "reset_high"
    /\ \E r \in Outcomes :
        /\ trace' = Log(trace, Call("reset.set_high", <<>>, r))
        /\ count' = Inc(count, "reset_high")
        /\ IF r = "ok"
           THEN /\ resetLevel' = "high"
                /\ okd' = okd \cup {"reset_high"}
                /\ timeout' = U32(0)
                /\ pc' = "busy_read"
                /\ UNCHANGED <<result, failed>>
           ELSE /\ Fail("reset_high", r, PinErr(r))
                /\ UNCHANGED <<resetLevel, okd, timeout>>
    /\ UNCHANGED <<config, s_config, csLevel, sawHigh, lowAt>>

\* fault: a failed busy read is taken as "still busy" (`.unwrap_or(true)`)
BusyRead_ErrorAsLow ==
    /\ pc = "busy_read"
    /\ \E r \in {"low", "high"} \cup NativeErrors :
        /\ trace' = Log(trace, Call("busy.is_low", <<>>, r))
        /\ count' = Inc(count, "busy_read")
        /\ IF r \in NativeErrors
           THEN /\ failed' = [op |-> "busy_read", e |-> r]
                /\ pc' = "poll_delay"
                /\ UNCHANGED <<okd, sawHigh, lowAt>>
           ELSE /\ okd' = okd \cup {"busy_read"}
                /\ IF IsLow(r)
                   THEN pc' = "poll_delay"
                   ELSE pc' = "i2c_write"
                /\ sawHigh' = (sawHigh \/ r = "high")
                /\ lowAt' = IF r = "low" THEN lowAt \cup {timeout} ELSE lowAt
                /\ UNCHANGED failed
    /\ UNCHANGED <<config, s_config, timeout, result, resetLevel, csLevel>>

\* while s.busy.is_low().map_err(|e| Error::Pin(e))? { ... }
BusyRead ==
    /\ pc = "busy_read"
    /\ \E r \in {"low", "high"} \cup NativeErrors :
        /\ trace' = Log(trace, Call("busy.is_low", <<>>, r))
        /\ count' = Inc(count, "busy_read")
        /\ IF r \in NativeErrors
           THEN /\ Fail("busy_read", r, PinErr(r))
                /\ UNCHANGED <<okd, sawHigh, lowAt>>
           ELSE /\ okd' = okd \cup {"busy_read"}
                /\ IF IsLow(r)
                   THEN pc' = "poll_delay"
                   ELSE pc' = "i2c_write"
                /\ sawHigh' = (sawHigh \/ r = "high")
                /\ lowAt' = IF r = "low" THEN lowAt \cup {timeout} ELSE lowAt
                /\ UNCHANGED <<result, failed>>
    /\ UNCHANGED <<config, s_config, timeout, resetLevel, csLevel>>

\* fault: the timeout test is made before the delay instead of after it
PollDelay_CheckBeforeDelay ==
    /\ pc = "poll_delay"
    /\ timeout' = AddU32(timeout, s_config)
    /\ IF TimedOut(timeout')
       THEN /\ result' = ResetTimeout
            /\ pc' = "done"
            /\ UNCHANGED <<trace, count, okd>>
       ELSE /\ trace' = Log(trace, Call("delay.delay_ms", s_config, "ok"))
            /\ count' = Inc(count, "poll_delay")
            /\ okd' = okd \cup {"poll_delay"}
            /\ pc' = "busy_read"
            /\ UNCHANGED result
    /\ UNCHANGED <<config, s_config, resetLevel, csLevel, sawHigh, lowAt,
                   failed>>

\* fault: on timeout the reset sequence is started again instead of returning
PollDelay_RetryReset ==
    /\ pc = "poll_delay"
    /\ timeout' = AddU32(timeout, s_config)
    /\ trace' = Log(trace, Call("delay.delay_ms", s_config, "ok"))
    /\ count' = Inc(count, "poll_delay")
    /\ okd' = okd \cup {"poll_delay"}
    /\ IF TimedOut(timeout')
       THEN pc' = "reset_low"
       ELSE pc' = "busy_read"
    /\ UNCHANGED <<config, s_config, result, resetLevel, csLevel, sawHigh,
                   lowAt, failed>>

\* fault: the poll interval stored in the instance is doubled after each
\* poll (a back-off written into s.config)
PollDelay_Backoff ==
    /\ pc = "poll_delay"
    /\ timeout' = AddU32(timeout, s_config)
    /\ trace' = Log(trace, Call("delay.delay_ms", s_config, "ok"))
    /\ s_config' = AddU32(s_config, s_config)
    /\ count' = Inc(count, "poll_delay")
    /\ okd' = okd \cup {"poll_delay"}
    /\ IF TimedOut(timeout')
       THEN /\ result' = ResetTimeout
            /\ pc' = "done"
       ELSE /\ pc' = "busy_read"
            /\ UNCHANGED result
    /\ UNCHANGED <<config, resetLevel, csLevel, sawHigh, lowAt, failed>>

\* timeout += s.config.poll_ms; s.delay.delay_ms(s.config.poll_ms);
\* if timeout > RESET_TIMEOUT_MS { return Err(Error::ResetTimeout); }
PollDelay ==
    /\ pc = "poll_delay"
    /\ timeout' = AddU32(timeout, s_config)
    /\ trace' = Log(trace, Call("delay.delay_ms", s_config, "ok"))
    /\ count' = Inc(count, "poll_delay")
    /\ okd' = okd \cup {"poll_delay"}
    /\ IF TimedOut(timeout')
       THEN /\ result' = ResetTimeout
            /\ pc' = "done"
       ELSE /\ pc' = "busy_read"
            /\ UNCHANGED result
    /\ UNCHANGED <<config, s_config, resetLevel, csLevel, sawHigh, lowAt,
                   failed>>

\* fault: a failed I2C write is retried instead of returned
I2cWrite_Retry ==
    /\ pc = "i2c_write"
    /\ \E r \in Outcomes :
        /\ trace' = Log(trace, Call("i2c.write", <<I2C_ADDR>> \o I2C_PAYLOAD, r))
        /\ count' = Inc(count, "i2c_write")
        /\ IF r = "ok"
           THEN /\ okd' = okd \cup {"i2c_write"}
                /\ pc' = "cs_low"
           ELSE /\ pc' = "i2c_write"
                /\ UNCHANGED okd
    /\ UNCHANGED <<config, s_config, timeout, result, resetLevel, csLevel,
                   sawHigh, lowAt, failed>>

\* s.i2c.write(0x01, &[0x01, 0x02]).map_err(|e| Error::I2c(e))?;
I2cWrite ==
    /\ pc = "i2c_write"
    /\ \E r \in Outcomes :
        /\ trace' = Log(trace, Call("i2c.write", <<I2C_ADDR>> \o I2C_PAYLOAD, r))
        /\ count' = Inc(count, "i2c_write")
        /\ IF r = "ok"
           THEN /\ okd' = okd \cup {"i2c_write"}
                /\ pc' = "cs_low"
                /\ UNCHANGED <<result, failed>>
           ELSE /\ Fail("i2c_write", r, I2cErr(r))
                /\ UNCHANGED okd
    /\ UNCHANGED <<config, s_config, timeout, resetLevel, csLevel, sawHigh,
                   lowAt>>

\* fault: the result of cs.set_low() is dropped (`let _ = ...;`)
CsLow_IgnoreError ==
    /\ pc = "cs_low"
    /\ \E r \in Outcomes :
        /\ trace' = Log(trace, Call("cs.set_low", <<>>, r))
        /\ count' = Inc(count, "cs_low")
        /\ pc' = "spi_write"
        /\ IF r = "ok"
           THEN /\ csLevel' = "low"
                /\ okd' = okd \cup {"cs_low"}
                /\ UNCHANGED failed
           ELSE /\ failed' = [op |-> "cs_low", e |-> r]
                /\ UNCHANGED <<csLevel, okd>>
    /\ UNCHANGED <<config, s_config, timeout, result, resetLevel, sawHigh,
                   lowAt>>

\* s.cs.set_low().map_err(|e| Error::Pin(e))?;
CsLow ==
    /\ pc = "cs_low"
    /\ \E r \in Outcomes :
        /\ trace' = Log(trace, Call("cs.set_low", <<>>, r))
        /\ count' = Inc(count, "cs_low")
        /\ IF r = "ok"
           THEN /\ csLevel' = "low"
                /\ okd' = okd \cup {"cs_low"}
                /\ pc' = "spi_write"
                /\ UNCHANGED <<result, failed>>
           ELSE /\ Fail("cs_low", r, PinErr(r))
                /\ UNCHANGED <<csLevel, okd>>
    /\ UNCHANGED <<config, s_config, timeout, resetLevel, sawHigh, lowAt>>

\* fault: a failed SPI write is retried instead of returned
SpiWrite_Retry ==
    /\ pc = "spi_write"
    /\ \E r \in Outcomes :
        /\ trace' = Log(trace, Call("spi.write", SPI_PAYLOAD, r))
        /\ count' = Inc(count, "spi_write")
        /\ IF r = "ok"
           THEN /\ okd' = okd \cup {"spi_write"}
                /\ pc' = "cs_high"
                /\ UNCHANGED failed
           ELSE /\ failed' = [op |-> "spi_write", e |-> r]
                /\ pc' = "spi_write"
                /\ UNCHANGED okd
    /\ UNCHANGED <<config, s_config, timeout, result, resetLevel, csLevel,
                   sawHigh, lowAt>>

\* s.spi.write(&[0x02, 0x03]).map_err(|e| Error::Spi(e))?;
SpiWrite ==
    /\ pc = "spi_write"
    /\ \E r \in Outcomes :
        /\ trace' = Log(trace, Call("spi.write", SPI_PAYLOAD, r))
        /\ count' = Inc(count, "spi_write")
        /\ IF r = "ok"
           THEN /\ okd' = okd \cup {"spi_write"}
                /\ pc' = "cs_high"
                /\ UNCHANGED <<result, failed>>
           ELSE /\ Fail("spi_write", r, SpiErr(r))
                /\ UNCHANGED okd
    /\ UNCHANGED <<config, s_config, timeout, resetLevel, csLevel, sawHigh,
                   lowAt>>

\* fault: the result of cs.set_high() is dropped before `Ok(s)`
CsHigh_IgnoreError ==
    /\ pc = "cs_high"
    /\ \E r \in Outcomes :
        /\ trace' = Log(trace, Call("cs.set_high", <<>>, r))
        /\ count' = Inc(count, "cs_high")
        /\ result' = OkInstance
        /\ pc' = "done"
        /\ IF r = "ok"
           THEN /\ csLevel' = "high"
                /\ okd' = okd \cup {"cs_high"}
                /\ UNCHANGED failed
           ELSE /\ failed' = [op |-> "cs_high", e |-> r]
                /\ UNCHANGED <<csLevel, okd>>
    /\ UNCHANGED <<config, s_config, timeout, resetLevel, sawHigh, lowAt>>

\* s.cs.set_high().map_err(|e| Error::Pin(e))?;  Ok(s)
CsHigh ==
    /\ pc = "cs_high"
    /\ \E r \in Outcomes :
        /\ trace' = Log(trace, Call("cs.set_high", <<>>, r))
        /\ count' = Inc(count, "cs_high")
        /\ IF r = "ok"
           THEN /\ csLevel' = "high"
                /\ okd' = okd \cup {"cs_high"}
                /\ result' = OkInstance
                /\ pc' = "done"
                /\ UNCHANGED failed
           ELSE /\ Fail("cs_high", r, PinErr(r))
                /\ UNCHANGED <<csLevel, okd>>
    /\ UNCHANGED <<config, s_config, timeout, resetLevel, sawHigh, lowAt>>

Next ==
    \/ ResetLow
    \/ PulseDelay
    \/ ResetHigh
    \/ BusyRead
    \/ PollDelay
    \/ I2cWrite
    \/ CsLow
    \/ SpiWrite
    \/ CsHigh

Spec == Init /\ [][Next]_vars

\* every capability call returns, so the single thread always takes its
\* next step
FairSpec == Spec /\ WF_vars(Next)

----------------------------------------------------------------------------
TypeOK ==
    /\ pc \in Sites \cup {"done"}
    /\ config \in PollValues
    /\ timeout \in (0..(Limb - 1)) \X (0..(Limb - 1))
    /\ result.tag \in {"None", "Ok", "ResetTimeout", "Pin", "I2c", "Spi"}
    /\ Len(trace) <= MaxTrace

----------------------------------------------------------------------------
(* Derived views of the history *)

Done == pc = "done"

NoCallFailed == failed = NoFailure

\* the trace holds every call made so far (it has not saturated)
TraceComplete == Len(trace) < MaxTrace

IsBusOp(c) == c.op \in {"i2c.write", "cs.set_low", "spi.write", "cs.set_high"}

IsBusyRead(c) == c.op = "busy.is_low"

\* outcomes of the busy reads, in order
BusyResults ==
    LET B == SelectSeq(trace, IsBusyRead)
    IN  [i \in 1..Len(B) |-> B[i].res]

\* number of delay_ms calls that asked for duration d
DelaysOf(d) ==
    Cardinality({i \in 1..Len(trace) :
                    trace[i].op = "delay.delay_ms" /\ trace[i].arg = d})

ResetPulseTrace ==
    << Call("reset.set_low", <<>>, "ok"),
       Call("delay.delay_ms", RESET_PULSE_MS, "ok"),
       Call("reset.set_high", <<>>, "ok") >>

----------------------------------------------------------------------------
(* C1: with poll_ms > 0, if the busy pin reads high at every read made once
   the accumulated poll time has reached some t <= RESET_TIMEOUT_MS, and no
   call fails, new returns Ok.  The code returns ResetTimeout after the last
   delay without sampling the pin again, so this fails (e.g. poll_ms = 101:
   low at 0, and the pin is never read at time 101). *)
C1_ReadyWithinTimeout ==
    (/\ Done
     /\ config # U32(0)
     /\ NoCallFailed
     /\ \E t \in 0..Val(RESET_TIMEOUT_MS) :
            \A a \in lowAt : GtU32(U32(t), a))
    => result = OkInstance

(* C2 as stated: for every poll_ms, zero included, if every busy read is low
   and no call fails, new returns Err(ResetTimeout). *)
C2_AllLowTimesOut_Original ==
    <>((Done /\ result = ResetTimeout) \/ sawHigh \/ ~NoCallFailed)

(* C2 amended: for every poll_ms > 0, if every busy read is low and no call
   fails, new returns, and returns exactly Err(ResetTimeout). *)
C2_AllLowTimesOut ==
    (config # U32(0)) =>
        <>((Done /\ result = ResetTimeout) \/ sawHigh \/ ~NoCallFailed)

C2_Witness ==
    /\ Done
    /\ result = ResetTimeout
    /\ config # U32(0)
    /\ ~sawHigh
    /\ NoCallFailed
    /\ count["busy_read"] > 1

(* C3: no I2C write, chip-select operation or SPI write is attempted unless
   an earlier busy read returned Ok(high); none is attempted on a path that
   ends in ResetTimeout or in a reset/busy pin error. *)
C3_BusAfterReady ==
    /\ (\E b \in BusSites : count[b] > 0) => sawHigh
    /\ \A i \in 1..Len(trace) :
          IsBusOp(trace[i]) =>
              \E j \in 1..(i - 1) : IsBusyRead(trace[j]) /\ trace[j].res = "high"
    /\ (result = ResetTimeout
        \/ failed.op \in {"reset_low", "reset_high", "busy_read"})
          => /\ \A b \in BusSites : count[b] = 0
             /\ \A i \in 1..Len(trace) : ~IsBusOp(trace[i])

C3_Witness ==
    /\ count["spi_write"] = 1
    /\ sawHigh
    /\ lowAt # {}

(* C4: new returns Ok only if reset set_low and set_high both succeeded, a
   busy read returned high, the I2C and the SPI probe writes succeeded and
   chip-select was last driven high; every other finished execution returns
   Err, and nothing is returned before the end. *)
C4_NoPartialInstance ==
    /\ result = OkInstance =>
          /\ Done
          /\ {"reset_low", "reset_high", "i2c_write", "cs_low", "spi_write",
              "cs_high"} \subseteq okd
          /\ resetLevel = "high"
          /\ sawHigh
          /\ csLevel = "high"
          /\ NoCallFailed
    /\ (Done /\ result # OkInstance) =>
          result.tag \in {"Pin", "I2c", "Spi", "ResetTimeout"}
    /\ ~Done => result = NoResult

C4_Witness ==
    /\ Done
    /\ result = OkInstance
    /\ csLevel = "high"

(* C5: in every terminal state in which chip-select was driven low, it has
   subsequently been driven high (set_high was called after the set_low).
   The code returns from a failed SPI write with chip-select still low. *)
C5_CsRestoredOnExit ==
    (Done /\ "cs_low" \in okd) => count["cs_high"] > 0

(* C6: if reset set_low fails with native error E, new returns Err(Pin(E))
   and no further step runs: the failed set_low is the only call made. *)
C6_ResetLowFails ==
    failed.op = "reset_low" =>
        /\ Done
        /\ result = [tag |-> "Pin", e |-> failed.e]
        /\ trace = << Call("reset.set_low", <<>>, failed.e) >>
        /\ count["reset_low"] = 1
        /\ \A s \in Sites \ {"reset_low"} : count[s] = 0
        /\ okd = {}

C6_Witness ==
    /\ failed.op = "reset_low"
    /\ failed.e \in NativeErrors
    /\ Done

(* C7: if a busy read (the first or a later one) fails with native error E,
   new returns Err(Pin(E)) at once: the failed read is the last call, no poll
   delay follows it and no bus transaction is made, whatever `timeout` is. *)
C7_BusyReadFails ==
    failed.op = "busy_read" =>
        /\ Done
        /\ result = [tag |-> "Pin", e |-> failed.e]
        /\ \A b \in BusSites : count[b] = 0
        /\ TraceComplete =>
              trace[Len(trace)] = Call("busy.is_low", <<>>, failed.e)
        /\ count["busy_read"] < MaxCount =>
              count["poll_delay"] = count["busy_read"] - 1

C7_Witness ==
    /\ failed.op = "busy_read"
    /\ Done
    /\ timeout = RESET_TIMEOUT_MS
    /\ count["poll_delay"] > 0

(* C8: if the I2C probe write fails with native error E, new returns
   Err(I2c(E)); the reset pulse (set_low, 10 ms delay, set_high) and a busy
   read returning high have happened, and no chip-select or SPI call is made. *)
C8_I2cFails ==
    failed.op = "i2c_write" =>
        /\ Done
        /\ result = [tag |-> "I2c", e |-> failed.e]
        /\ SubSeq(trace, 1, 3) = ResetPulseTrace
        /\ {"reset_low", "pulse_delay", "reset_high"} \subseteq okd
        /\ sawHigh
        /\ count["i2c_write"] = 1
        /\ \A b \in {"cs_low", "spi_write", "cs_high"} : count[b] = 0
        /\ csLevel = "unknown"

C8_Witness ==
    /\ failed.op = "i2c_write"
    /\ Done
    /\ result.tag = "I2c"

(* C9: every capability failure short-circuits with its mapped variant and
   is never retried: reset set_high, chip-select set_low and set_high give
   Err(Pin(E)), the SPI write gives Err(Spi(E)), E unchanged; after the first
   failing call no call is made; each of the six pin/bus calls other than the
   busy read is made at most once. *)
C9_FailureInv ==
    /\ failed.op \in {"reset_high", "cs_low", "cs_high"} =>
          result = [tag |-> "Pin", e |-> failed.e]
    /\ failed.op = "spi_write" => result = [tag |-> "Spi", e |-> failed.e]
    /\ ~NoCallFailed => (Done /\ failed.e \in NativeErrors)
    /\ \A s \in {"reset_low", "reset_high", "i2c_write", "cs_low",
                 "spi_write", "cs_high"} : count[s] <= 1

C9_ShortCircuit ==
    /\ []C9_FailureInv
    /\ [][~NoCallFailed => UNCHANGED <<count, trace, failed, result>>]_vars

C9_Witness ==
    /\ failed.op = "spi_write"
    /\ Done
    /\ result.tag = "Spi"

(* C10: with the default configuration (poll_ms = 100), a busy pin that
   reads low once then high and no failing call, new makes exactly the calls
   reset set_low, delay_ms(10), reset set_high, busy read (low),
   delay_ms(100), busy read (high), I2C write of [1, 2] to address 1,
   chip-select set_low, one SPI write, chip-select set_high, and returns Ok;
   there is exactly one delay of 10 and one delay of 100. *)
DefaultTrace ==
    << Call("reset.set_low", <<>>, "ok"),
       Call("delay.delay_ms", U32(10), "ok"),
       Call("reset.set_high", <<>>, "ok"),
       Call("busy.is_low", <<>>, "low"),
       Call("delay.delay_ms", U32(100), "ok"),
       Call("busy.is_low", <<>>, "high"),
       Call("i2c.write", <<1, 1, 2>>, "ok"),
       Call("cs.set_low", <<>>, "ok"),
       Call("spi.write", <<2, 3>>, "ok"),
       Call("cs.set_high", <<>>, "ok") >>

C10_DefaultEndToEnd ==
    (/\ Done
     /\ config = DEFAULT_POLL_MS
     /\ NoCallFailed
     /\ BusyResults = <<"low", "high">>)
    => /\ trace = DefaultTrace
       /\ result = OkInstance
       /\ DelaysOf(U32(10)) = 1
       /\ DelaysOf(U32(100)) = 1

C10_Witness ==
    /\ Done
    /\ config = DEFAULT_POLL_MS
    /\ NoCallFailed
    /\ BusyResults = <<"low", "high">>
    /\ Len(trace) = 10

----------------------------------------------------------------------------
(* Positions and phases of the bring-up state machine *)

PcRank(p) ==
    CASE p = "reset_low"   -> 1
      [] p = "pulse_delay" -> 2
      [] p = "reset_high"  -> 3
      [] p = "busy_read"   -> 4
      [] p = "poll_delay"  -> 5
      [] p = "i2c_write"   -> 6
      [] p = "cs_low"      -> 7
      [] p = "spi_write"   -> 8
      [] p = "cs_high"     -> 9
      [] p = "done"        -> 10

\* 1 Unreset, 2 ResettingPulse, 3 AwaitingReady, 4 ProbingRegisterBus,
\* 5 ProbingBlockBus, 6 Ready, 7 Failed
Phase(p, res) ==
    CASE p = "reset_low"                        -> 1
      [] p \in {"pulse_delay", "reset_high"}    -> 2
      [] p \in {"busy_read", "poll_delay"}      -> 3
      [] p = "i2c_write"                        -> 4
      [] p \in {"cs_low", "spi_write", "cs_high"} -> 5
      [] p = "done" /\ res = OkInstance         -> 6
      [] p = "done" /\ res # OkInstance         -> 7

\* floor(RESET_TIMEOUT_MS / p) + 1 for a u32 p > 0
MaxPollDelays(p) ==
    IF p[1] > 0 THEN 1 ELSE (Val(RESET_TIMEOUT_MS) \div p[2]) + 1

(* C11: for every poll_ms > 0 and every behaviour of the capabilities, new
   eventually returns, after at most floor(RESET_TIMEOUT_MS / poll_ms) + 1
   poll delays; an execution that never returns has poll_ms = 0 and a busy
   pin that reads low for ever. *)
C11_PollBound ==
    config # U32(0) => count["poll_delay"] <= MaxPollDelays(config)

C11_Terminates ==
    /\ []C11_PollBound
    /\ <>Done \/ ((config = U32(0)) /\ [](~sawHigh /\ NoCallFailed))

C11_Witness ==
    /\ Done
    /\ config = U32(25)
    /\ count["poll_delay"] = MaxPollDelays(config)
    /\ result = ResetTimeout

(* C12: the bring-up only moves forward: every step moves to a later
   position, except the poll loop (poll delay back to busy read) inside
   AwaitingReady; the phase stays or advances by one in the order Unreset,
   ResettingPulse, AwaitingReady, ProbingRegisterBus, ProbingBlockBus, Ready,
   or becomes Failed; nothing happens after Ready or Failed;
   Failed(ResetTimeout) is entered only from AwaitingReady, Failed(I2c) only
   from ProbingRegisterBus, Failed(Spi) only from ProbingBlockBus. *)
C12_Step ==
    /\ ~Done
    /\ \/ PcRank(pc') > PcRank(pc)
       \/ pc = "poll_delay" /\ pc' = "busy_read"
    /\ \/ Phase(pc', result') = Phase(pc, result) /\ Phase(pc, result) \in {2, 3, 5}
       \/ Phase(pc', result') = Phase(pc, result) + 1 /\ Phase(pc, result) < 6
       \/ Phase(pc', result') = 7
    /\ Phase(pc', result') = 6 => Phase(pc, result) = 5
    /\ result'.tag = "ResetTimeout" => Phase(pc, result) = 3
    /\ result'.tag = "I2c" => Phase(pc, result) = 4
    /\ result'.tag = "Spi" => Phase(pc, result) = 5

C12_StrictlyForward == [][C12_Step]_vars

C12_Witness ==
    /\ Done
    /\ result = OkInstance
    /\ count["poll_delay"] >= 2

(* C13: construction never modifies the configuration: in every reachable
   state the instance's poll_ms is the one the caller supplied, every poll
   delay is requested with exactly that value, and the returned instance
   holds it. *)
C13_ConfigUnchanged ==
    /\ s_config = config
    /\ \A i \in 4..Len(trace) :
          trace[i].op = "delay.delay_ms" => trace[i].arg = config
    /\ result = OkInstance => s_config = config

C13_Witness ==
    /\ Done
    /\ result = OkInstance
    /\ s_config = U32(30)
    /\ DelaysOf(U32(30)) = 3

(* C14: the first three calls of every execution that gets that far are
   reset set_low, delay_ms(10), reset set_high; the pulse delay is 10 for
   every poll_ms; the reset pin is never driven again; no busy read happens
   before reset set_high has succeeded. *)
C14_ResetPulse ==
    /\ Len(trace) >= 1 => trace[1].op = "reset.set_low"
    /\ Len(trace) >= 2 =>
          /\ trace[1].res = "ok"
          /\ trace[2] = Call("delay.delay_ms", U32(10), "ok")
    /\ Len(trace) >= 3 => trace[3].op = "reset.set_high"
    /\ \A i \in 4..Len(trace) :
          trace[i].op \notin {"reset.set_low", "reset.set_high"}
    /\ count["reset_low"] <= 1 /\ count["pulse_delay"] <= 1
    /\ count["reset_high"] <= 1
    /\ count["busy_read"] > 0 =>
          /\ "reset_high" \in okd
          /\ resetLevel = "high"
          /\ SubSeq(trace, 1, 3) = ResetPulseTrace
    /\ \A i \in 1..Len(trace) : IsBusyRead(trace[i]) => i > 3

C14_Witness ==
    /\ config = U32_MAX
    /\ Len(trace) >= 4
    /\ trace[2].arg = U32(10)
    /\ IsBusyRead(trace[4])

----------------------------------------------------------------------------
(* Natural numbers up to 2^48 as three 16-bit limbs <<d2, d1, d0>>, for sums
   of u32 values taken without wrapping *)

Wide(v) == <<0, v[1], v[2]>>

WideAdd(w, v) ==
    LET lo == w[3] + v[2]
        hi == w[2] + v[1] + (lo \div Limb)
    IN  <<w[1] + (hi \div Limb), hi % Limb, lo % Limb>>

WideLeq(a, b) ==
    \/ a[1] < b[1]
    \/ a[1] = b[1] /\ a[2] < b[2]
    \/ a[1] = b[1] /\ a[2] = b[2] /\ a[3] <= b[3]

\* sum of the durations of the poll delays among the first n calls
RECURSIVE PollDelaySum(_)
PollDelaySum(n) ==
    IF n <= 3 THEN Wide(U32(0))
    ELSE IF trace[n].op = "delay.delay_ms"
         THEN WideAdd(PollDelaySum(n - 1), trace[n].arg)
         ELSE PollDelaySum(n - 1)

\* RESET_TIMEOUT_MS + poll_ms, not wrapped
PollBudget == WideAdd(Wide(RESET_TIMEOUT_MS), config)

(* C15: ResetTimeout is returned exactly when, after a poll delay, the
   accumulated poll time strictly exceeds RESET_TIMEOUT_MS; an accumulated
   time equal to 100 leads to another busy read; with poll_ms = 100 and a
   busy pin that stays low there are exactly two busy reads and two delays
   of 100 before ResetTimeout. *)
C15_TimeoutInv ==
    /\ (result = ResetTimeout) <=> GtU32(timeout, RESET_TIMEOUT_MS)
    /\ result = ResetTimeout =>
          /\ Done
          /\ trace[Len(trace)] = Call("delay.delay_ms", config, "ok")
    /\ (Done /\ config = U32(100) /\ ~sawHigh /\ NoCallFailed) =>
          /\ result = ResetTimeout
          /\ count["busy_read"] = 2
          /\ count["poll_delay"] = 2
          /\ DelaysOf(U32(100)) = 2
          /\ BusyResults = <<"low", "low">>

C15_StrictlyGreater ==
    /\ []C15_TimeoutInv
    /\ [][(pc = "poll_delay" /\ timeout' = RESET_TIMEOUT_MS)
            => (pc' = "busy_read" /\ result' = NoResult)]_vars

C15_Witness ==
    /\ Done
    /\ result = ResetTimeout
    /\ config = U32(100)
    /\ timeout = U32(200)
    /\ count["busy_read"] = 2

(* C16: the SPI write is issued only when the latest chip-select call is a
   successful set_low; chip-select set_low is issued only after the I2C
   write succeeded; on the success path the last calls are exactly
   chip-select set_low, one SPI write, chip-select set_high, and chip-select
   is high when Ok is returned. *)
C16_SpiBracketed ==
    /\ \A i \in 1..Len(trace) :
          trace[i].op = "spi.write" =>
              i > 1 /\ trace[i - 1] = Call("cs.set_low", <<>>, "ok")
    /\ \A i \in 1..Len(trace) :
          trace[i].op = "cs.set_low" =>
              i > 1 /\ trace[i - 1] = Call("i2c.write", <<1, 1, 2>>, "ok")
    /\ count["spi_write"] > 0 => "cs_low" \in okd
    /\ pc = "spi_write" => csLevel = "low"
    /\ count["cs_low"] > 0 => "i2c_write" \in okd
    /\ result = OkInstance =>
          /\ csLevel = "high"
          /\ count["cs_low"] = 1 /\ count["spi_write"] = 1
          /\ count["cs_high"] = 1
          /\ TraceComplete =>
                SubSeq(trace, Len(trace) - 2, Len(trace)) =
                    << Call("cs.set_low", <<>>, "ok"),
                       Call("spi.write", <<2, 3>>, "ok"),
                       Call("cs.set_high", <<>>, "ok") >>

C16_Witness ==
    /\ Done
    /\ result = OkInstance
    /\ TraceComplete
    /\ trace[Len(trace) - 1].op = "spi.write"

(* C17: in every reachable state the accumulated poll time is at most
   RESET_TIMEOUT_MS + poll_ms, and so is the sum of all poll delays
   requested so far. *)
C17_BoundedElapsed ==
    /\ WideLeq(Wide(timeout), PollBudget)
    /\ WideLeq(PollDelaySum(Len(trace)), PollBudget)

C17_Witness ==
    /\ Done
    /\ config = U32(100)
    /\ PollDelaySum(Len(trace)) = PollBudget
    /\ Wide(timeout) = PollBudget

(* C18: the u32 addition `timeout += poll_ms` never overflows, for any
   poll_ms and any busy-pin behaviour: it is executed only while
   timeout <= RESET_TIMEOUT_MS; with poll_ms > 100 it is executed at most
   once, with poll_ms <= 100 the sum never exceeds 200. *)
C18_AddInv ==
    /\ pc = "poll_delay" =>
          /\ ~GtU32(timeout, RESET_TIMEOUT_MS)
          /\ CarryU32(timeout, s_config) = 0
    /\ GtU32(config, RESET_TIMEOUT_MS) => count["poll_delay"] <= 1
    /\ ~GtU32(config, RESET_TIMEOUT_MS) => ~GtU32(timeout, U32(200))

C18_NoOverflow ==
    /\ []C18_AddInv
    /\ [][pc = "poll_delay" =>
            Wide(timeout') = WideAdd(Wide(timeout), s_config)]_vars

C18_Witness ==
    /\ Done
    /\ config = U32_MAX
    /\ timeout = U32_MAX
    /\ count["poll_delay"] = 1

(* C19: whenever new returns ResetTimeout, the last call is a poll delay
   that followed a busy read returning low, and there are as many busy reads
   as poll delays (the level after the last delay is never read); on every
   path that leaves the poll loop by readiness there is one busy read more
   than poll delays. *)
C19_NoResample ==
    /\ result = ResetTimeout =>
          /\ count["busy_read"] = count["poll_delay"]
          /\ Len(trace) >= 5
          /\ trace[Len(trace)] = Call("delay.delay_ms", s_config, "ok")
          /\ trace[Len(trace) - 1] = Call("busy.is_low", <<>>, "low")
          /\ ~sawHigh
    /\ (sawHigh /\ count["busy_read"] < MaxCount) =>
          count["busy_read"] = count["poll_delay"] + 1

C19_Witness ==
    /\ Done
    /\ result = ResetTimeout
    /\ config = U32(30)
    /\ count["busy_read"] = 4
    /\ count["poll_delay"] = 4
====
